---- MODULE Spec2Model ----
(***************************************************************************)
(* A model of main.py: the command-line PDF merger that prepends a cover   *)
(* page and a table of contents (TOC) and adds one bookmark per section.   *)
(*                                                                         *)
(* File names are sequences of one-character strings.  Lengths on the page *)
(* are integers in hundredths of a point (1 inch = 72 pt = 7200), which    *)
(* represents every length the TOC renderer computes exactly.              *)
(*                                                                         *)
(* Three specifications share the operators below:                         *)
(*   Spec      one run of main() from the command line to the exit status, *)
(*             make_toc_pdf stepped row by row inside it;                  *)
(*   TocSpec   make_toc_pdf(entries) alone, for longer entry lists;        *)
(*   NameSpec  the display-name clean-up applied to globbed file names.    *)
(***************************************************************************)
EXTENDS Integers, Sequences, FiniteSets

(* ------------------------------ bounds --------------------------------- *)

\* Largest page count of a source document in the small directories.
MaxPages == 2
\* Largest number of files in a directory of numbered one-page documents.
BulkMax == 27
\* Largest entry list handed to make_toc_pdf in TocSpec.
MaxEntries == 54
\* Largest number of pieces a file name is put together from in NameSpec.
MaxPieces == 7

(* ------------------------- strings and names --------------------------- *)

\* The characters used, in increasing code point order (Python compares
\* strings by code point).
CharOrder ==
    << " ", ".", "0", "1", "2", "3", "4", "5", "6", "7", "8", "9",
       "B", "_", "a", "b", "d", "f", "h", "n", "p", "s", "t", "x" >>

Ord(c) == CHOOSE i \in 1..Len(CharOrder) : CharOrder[i] = c

RECURSIVE StrLess(_, _)
\* a < b on Python strings: lexicographic by code point, a proper prefix first.
StrLess(a, b) ==
    IF b = << >> THEN FALSE
    ELSE IF a = << >> THEN TRUE
    ELSE IF Head(a) = Head(b) THEN StrLess(Tail(a), Tail(b))
    ELSE Ord(Head(a)) < Ord(Head(b))

RECURSIVE sortedDescending(_)
\* A sort in descending order.
sortedDescending(S) ==
    IF S = {} THEN << >>
    ELSE LET m == CHOOSE x \in S : \A y \in S \ {x} : StrLess(y, x)
         IN  << m >> \o sortedDescending(S \ {m})

RECURSIVE sorted(_)
\* sorted(S) of a set of distinct strings: ascending sequence.
sorted(S) ==
    IF S = {} THEN << >>
    ELSE LET m == CHOOSE x \in S : \A y \in S \ {x} : StrLess(x, y)
         IN  << m >> \o sorted(S \ {m})

DotPdf == << ".", "p", "d", "f" >>

StartsWith(s, pre) ==
    /\ Len(s) >= Len(pre)
    /\ SubSeq(s, 1, Len(pre)) = pre

EndsWith(s, suf) ==
    /\ Len(s) >= Len(suf)
    /\ SubSeq(s, Len(s) - Len(suf) + 1, Len(s)) = suf

RECURSIVE Replace(_, _, _)
\* Python's s.replace(old, new) for non-empty old: every non-overlapping
\* occurrence, scanning from the left.
Replace(s, old, new) ==
    IF Len(s) < Len(old) THEN s
    ELSE IF StartsWith(s, old)
         THEN new \o Replace(SubSeq(s, Len(old) + 1, Len(s)), old, new)
         ELSE << Head(s) >> \o Replace(Tail(s), old, new)

\* name.replace(".pdf", "").replace("_", " ")
display_name(name) == Replace(Replace(name, DotPdf, << >>), << "_" >>, << " " >>)

\* fnmatch of a directory entry against "*.pdf" as glob does it: the suffix
\* is compared case-sensitively and a leading dot is never matched by "*".
GlobMatch(name) ==
    /\ EndsWith(name, DotPdf)
    /\ Head(name) # "."

(* --------------------------- page geometry ----------------------------- *)

\* reportlab.lib.units.inch (72 pt) and the height of reportlab's letter page
\* (792 pt), in hundredths of a point.
inch == 7200
page_h == 79200

\* k hundredths of an inch: 0.32 * inch is Hundredths(32).
Hundredths(k) == (k * inch) \div 100

margin == Hundredths(90)

(* ----------------------------- make_toc_pdf ---------------------------- *)

\* One thing drawn on the TOC canvas: what, on which page of the canvas
\* (the pages already emitted by showPage, plus one), at which y, with which
\* text and which number.
Drawn(op, page, y, text, num) ==
    [op |-> op, page |-> page, y |-> y, text |-> text, num |-> num]

\* The renderer's cursor: y, page_num, the number of showPage calls so far
\* and everything drawn so far.  This is the cursor after the first page's
\* header and rule.
TocStart ==
    [ y        |-> page_h - margin - Hundredths(30) - Hundredths(50),
      page_num |-> 1,
      shown    |-> 0,
      ops      |-> << Drawn("header", 1, page_h - margin, << >>, 0) >> ]

\* A page break only once the cursor is below the bottom margin.
NeedNewPageBelowMargin(y) == y < margin

\* "if y < margin + 0.5 * inch"
NeedNewPage(y) == y < margin + Hundredths(50)

\* The page-number footer "- page_num -" on the page being drawn.
Footer(st) ==
    Drawn("footer", st.shown + 1, Hundredths(50), << >>, st.page_num)

\* The body of the "if" of the loop: footer, showPage, continuation header.
TocBreak(st) ==
    [ y        |-> page_h - margin - Hundredths(15) - Hundredths(40),
      page_num |-> st.page_num + 1,
      shown    |-> st.shown + 1,
      ops      |-> st.ops \o
                   << Footer(st),
                      Drawn("continued", st.shown + 2, page_h - margin, << >>, 0) >> ]

\* One iteration of "for idx, (name, start_page) in enumerate(entries)".
\* The shading rectangle and the dotted leader move neither y nor page_num;
\* the shading is kept in the op name, the leader (font metrics) is left out.
TocRow(st, idx, entry) ==
    LET at == IF NeedNewPage(st.y) THEN TocBreak(st) ELSE st
    IN  [ y        |-> at.y - Hundredths(32),
          page_num |-> at.page_num,
          shown    |-> at.shown,
          ops      |-> at.ops \o
                       << Drawn(IF idx % 2 = 0 THEN "shaded_row" ELSE "row",
                                at.shown + 1, at.y,
                                display_name(entry.name), entry.start_page) >> ]

\* A save that leaves the last page without its footer.
TocSaveNoFooter(st) == [ pages |-> st.shown + 1, ops |-> st.ops ]

\* After the loop: the last page's footer, then c.save(), which emits the
\* page being drawn.  pages is len(PdfReader(buf).pages).
TocSave(st) ==
    [ pages |-> st.shown + 1, ops |-> st.ops \o << Footer(st) >> ]

(* ---------------------------- make_cover_pdf --------------------------- *)

\* What can be found at static/cover.png.
CoverImages == { "missing", "decodable", "undecodable" }

\* The cover is one canvas page in every branch: the image, or the title
\* "Document Collection" when the image is missing or drawing it raises
\* (then with a warning).  c.save() emits that page.
make_cover_pdf(img) ==
    [ pages   |-> 1,
      content |-> IF img = "decodable" THEN "image" ELSE "Document Collection",
      warned  |-> img = "undecodable" ]

(* --------------------------- the file system --------------------------- *)

\* A directory entry: whether PdfReader(path) succeeds, and len(r.pages).
Unreadable == [readable |-> FALSE, pages |-> 0]
Readable(n) == [readable |-> TRUE, pages |-> n]
FileKinds == { Unreadable } \cup { Readable(n) : n \in 0..MaxPages }

\* Names a directory may hold: three that match "*.pdf" (their sorted order
\* is B.pdf, a.pdf, a_b.pdf) and two that do not.
PdfNames ==
    { << "a", ".", "p", "d", "f" >>,
      << "a", "_", "b", ".", "p", "d", "f" >>,
      << "B", ".", "p", "d", "f" >> }
OtherNames ==
    { << "n", ".", "t", "x", "t" >>,
      << ".", "h", ".", "p", "d", "f" >> }

Digits == << "0", "1", "2", "3", "4", "5", "6", "7", "8", "9" >>

\* s00.pdf, s01.pdf, ...
BulkName(i) ==
    << "s", Digits[(i \div 10) + 1], Digits[(i % 10) + 1] >> \o DotPdf

\* A directory is a function from the names in it to what each file is.
SmallDirs ==
    UNION { [ P \cup O -> FileKinds ] : P \in SUBSET PdfNames, O \in SUBSET OtherNames }

BulkDirs ==
    { [ nm \in { BulkName(i) : i \in 0..(n - 1) } |-> Readable(1) ] : n \in 1..BulkMax }

\* Files other than "*.pdf" are never opened, so what they hold is fixed.
Directories ==
    { d \in SmallDirs : \A nm \in DOMAIN d \cap OtherNames : d[nm] = Readable(1) }
        \cup BulkDirs

\* glob.glob(os.path.join(in_dir, "*.pdf")): the matching entries, as a set
\* (glob promises no order).  All paths share the prefix in_dir, so sorting
\* the paths is sorting the names.
glob(d) == { nm \in DOMAIN d : GlobMatch(nm) }

(* ------------------------------ messages ------------------------------- *)

MsgUsage == "Usage: python main.py OUTPUT.pdf INPUT_DIR"
MsgNotDir == "Error: 'INPUT_DIR' is not a directory"
MsgNoPdfs == "No PDFs found in INPUT_DIR"
MsgMerging == "Merging N PDFs from 'INPUT_DIR' -> 'OUTPUT'"
MsgAdding == "Adding cover page and beautiful Table of Contents..."
MsgSkipping == "WARNING: Skipping"
MsgCoverWarning == "Warning: Could not add cover image"
MsgDone == "Done. Your beautiful PDF is ready!"
MsgNoReadable == "No readable PDFs to merge."
MsgWriteFailed == "OSError"

\* A printed line: its text and the file name or count it carries.
Line(text, arg) == [text |-> text, arg |-> arg]
NoArg == << >>

(* ------------------------------- state --------------------------------- *)

VARIABLES
    \* --- Spec: one run of main() ---
    pc,             \* where the run is
    argc,           \* len(sys.argv)
    isdir,          \* os.path.isdir(in_dir)
    dir,            \* the content of in_dir
    cover_img,      \* what is at static/cover.png
    pdfs,           \* main's sorted list of paths
    p_idx,          \* how many of pdfs the cataloging loop has consumed
    entries,        \* merge_with_index: (name, start_page) pairs
    readers,        \* merge_with_index: (name, reader) pairs
    page_cursor,    \* merge_with_index: pages counted so far
    cover_pdf,      \* the rendered cover
    toc_pdf,        \* the rendered TOC
    writer_pages,   \* writer: the pages added, in order
    outline,        \* writer: the outline items added, in order
    running_index,  \* merge_with_index: index of the next page to append
    r_idx,          \* how many of readers the append loop has consumed
    stdout,         \* the lines printed
    raised,         \* the message of the uncaught exception, if any
    exit_code,      \* the exit status once pc = "exit"
    out_opened,     \* whether open(output_path, "wb") has succeeded
    out_file,       \* what the output path holds
    \* --- TocSpec: make_toc_pdf(t_entries) row by row ---
    t_pc, t_entries, t_idx, t_st, t_pdf,
    \* --- NameSpec: the clean-up of one file name ---
    n_pc, n_name, n_pieces, n_shown, n_twice

inputs == << argc, isdir, dir, cover_img >>
catalog == << pdfs, p_idx, entries, readers, page_cursor >>
rendered == << cover_pdf, toc_pdf >>
writer == << writer_pages, outline, running_index, r_idx >>
outcome == << stdout, raised, exit_code, out_opened, out_file >>
main_vars == << pc, inputs, catalog, rendered, writer, outcome >>
toc_vars == << t_pc, t_entries, t_idx, t_st, t_pdf >>
name_vars == << n_pc, n_name, n_pieces, n_shown, n_twice >>
vars == << main_vars, toc_vars, name_vars >>

NotExited == 0 - 1
NoPdf == [pages |-> 0, ops |-> << >>]
NoCover == [pages |-> 0, content |-> "", warned |-> FALSE]
NoFile == [state |-> "absent", pages |-> << >>, outline |-> << >>]

\* The state of a part of the model that a specification does not run.
MainIdle ==
    /\ pc = "idle"
    /\ argc = 0 /\ isdir = FALSE /\ dir = << >> /\ cover_img = "missing"
    /\ pdfs = << >> /\ p_idx = 0 /\ entries = << >> /\ readers = << >>
    /\ page_cursor = 0
    /\ cover_pdf = NoCover /\ toc_pdf = NoPdf
    /\ writer_pages = << >> /\ outline = << >> /\ running_index = 0 /\ r_idx = 0
    /\ stdout = << >> /\ raised = "" /\ exit_code = NotExited
    /\ out_opened = FALSE /\ out_file = NoFile

TocIdle ==
    /\ t_pc = "idle" /\ t_entries = << >> /\ t_idx = 0
    /\ t_st = TocStart /\ t_pdf = NoPdf

NameIdle ==
    /\ n_pc = "idle" /\ n_name = << >> /\ n_pieces = 0
    /\ n_shown = << >> /\ n_twice = << >>

(* ------------------------------- main() -------------------------------- *)

ArgCounts == 1..4

Init ==
    /\ pc = "main"
    /\ argc \in ArgCounts
    /\ isdir \in BOOLEAN
    /\ dir \in Directories
    /\ cover_img \in CoverImages
    /\ pdfs = << >> /\ p_idx = 0 /\ entries = << >> /\ readers = << >>
    /\ page_cursor = 0
    /\ cover_pdf = NoCover /\ toc_pdf = NoPdf
    /\ writer_pages = << >> /\ outline = << >> /\ running_index = 0 /\ r_idx = 0
    /\ stdout = << >> /\ raised = "" /\ exit_code = NotExited
    /\ out_opened = FALSE /\ out_file = NoFile
    /\ TocIdle /\ NameIdle

\* sys.exit(1) after printing text.
ExitWith(text) ==
    /\ stdout' = Append(stdout, Line(text, NoArg))
    /\ exit_code' = 1
    /\ pc' = "exit"
    /\ UNCHANGED << raised, out_opened, out_file >>

\* An exception that nothing catches: the interpreter prints the traceback
\* and exits with status 1.
Uncaught(message) ==
    /\ raised' = message
    /\ exit_code' = 1
    /\ pc' = "exit"

\* "if len(sys.argv) != 3"
MainUsage ==
    /\ pc = "main"
    /\ argc # 3
    /\ ExitWith(MsgUsage)
    /\ UNCHANGED << inputs, catalog, rendered, writer >>
    /\ UNCHANGED << toc_vars, name_vars >>

\* "if not os.path.isdir(in_dir)"
MainNotDir ==
    /\ pc = "main"
    /\ argc = 3
    /\ ~isdir
    /\ ExitWith(MsgNotDir)
    /\ UNCHANGED << inputs, catalog, rendered, writer >>
    /\ UNCHANGED << toc_vars, name_vars >>

\* "if not pdfs"
MainNoPdfs ==
    /\ pc = "main"
    /\ argc = 3
    /\ isdir
    /\ sorted(glob(dir)) = << >>
    /\ ExitWith(MsgNoPdfs)
    /\ UNCHANGED << inputs, catalog, rendered, writer >>
    /\ UNCHANGED << toc_vars, name_vars >>

\* The two progress lines and the call of merge_with_index(out_path, pdfs).
MainMerge ==
    /\ pc = "main"
    /\ argc = 3
    /\ isdir
    /\ sorted(glob(dir)) # << >>
    /\ pdfs' = sorted(glob(dir))
    /\ stdout' = stdout \o << Line(MsgMerging, NoArg), Line(MsgAdding, NoArg) >>
    /\ pc' = "catalog"
    /\ UNCHANGED << inputs, p_idx, entries, readers, page_cursor, rendered, writer,
                    raised, exit_code, out_opened, out_file >>
    /\ UNCHANGED << toc_vars, name_vars >>

(* -------------------------- merge_with_index --------------------------- *)

\* A start page that counts from 0.
StartPageZeroBased(cursor) == cursor

\* "page_cursor + 1": the start page shown in the TOC.
StartPage(cursor) == cursor + 1

\* A cataloging loop that does not catch what PdfReader(p) raises.
CatalogSkipAborts ==
    /\ pc = "catalog"
    /\ p_idx < Len(pdfs)
    /\ ~dir[pdfs[p_idx + 1]].readable
    /\ Uncaught("PdfReadError")
    /\ UNCHANGED << inputs, catalog, rendered, writer, stdout, out_opened, out_file >>
    /\ UNCHANGED << toc_vars, name_vars >>

\* An iteration of "for p in pdf_paths" in which PdfReader(p) raises.
CatalogSkip ==
    /\ pc = "catalog"
    /\ p_idx < Len(pdfs)
    /\ ~dir[pdfs[p_idx + 1]].readable
    /\ stdout' = Append(stdout, Line(MsgSkipping, pdfs[p_idx + 1]))
    /\ p_idx' = p_idx + 1
    /\ UNCHANGED << pc, inputs, pdfs, entries, readers, page_cursor, rendered, writer,
                    raised, exit_code, out_opened, out_file >>
    /\ UNCHANGED << toc_vars, name_vars >>

\* An iteration of "for p in pdf_paths" in which PdfReader(p) succeeds.
CatalogRead ==
    /\ pc = "catalog"
    /\ p_idx < Len(pdfs)
    /\ dir[pdfs[p_idx + 1]].readable
    /\ LET p == pdfs[p_idx + 1]
       IN  /\ readers' = Append(readers, [name |-> p, pages |-> dir[p].pages])
           /\ entries' = Append(entries, [name |-> p, start_page |-> StartPage(page_cursor)])
           /\ page_cursor' = page_cursor + dir[p].pages
    /\ p_idx' = p_idx + 1
    /\ UNCHANGED << pc, inputs, pdfs, rendered, writer, outcome >>
    /\ UNCHANGED << toc_vars, name_vars >>

\* A merge without the check for an empty catalog: it goes on to the cover.
CatalogEmptyUnchecked ==
    /\ pc = "catalog"
    /\ p_idx = Len(pdfs)
    /\ readers = << >>
    /\ cover_pdf' = make_cover_pdf(cover_img)
    /\ writer_pages' = writer_pages \o [ k \in 1..cover_pdf'.pages |->
                                           [kind |-> "cover", name |-> << >>, k |-> k] ]
    /\ pc' = "toc"
    /\ UNCHANGED << inputs, catalog, toc_pdf, outline, running_index, r_idx, outcome >>
    /\ UNCHANGED << toc_vars, name_vars >>

\* "if not readers: raise RuntimeError(...)"
CatalogEmpty ==
    /\ pc = "catalog"
    /\ p_idx = Len(pdfs)
    /\ readers = << >>
    /\ Uncaught(MsgNoReadable)
    /\ UNCHANGED << inputs, catalog, rendered, writer, stdout, out_opened, out_file >>
    /\ UNCHANGED << toc_vars, name_vars >>

\* The pages src contributes: n pages, numbered from 1.
PagesOf(kind, name, n) ==
    [ k \in 1..n |-> [kind |-> kind, name |-> name, k |-> k] ]

\* A copy loop that stops one page short.
AddPagesOffByOne(pages, kind, name, n) == pages \o PagesOf(kind, name, n - 1)

\* "for ...: writer.add_page(...)" over all n pages of one document.
AddPages(pages, kind, name, n) == pages \o PagesOf(kind, name, n)

\* Build the cover and add its pages.
AddCover ==
    /\ pc = "catalog"
    /\ p_idx = Len(pdfs)
    /\ readers # << >>
    /\ cover_pdf' = make_cover_pdf(cover_img)
    /\ stdout' = IF cover_pdf'.warned
                 THEN Append(stdout, Line(MsgCoverWarning, NoArg))
                 ELSE stdout
    /\ writer_pages' = AddPages(writer_pages, "cover", << >>, cover_pdf'.pages)
    /\ pc' = "toc"
    /\ UNCHANGED << inputs, catalog, toc_pdf, outline, running_index, r_idx,
                    raised, exit_code, out_opened, out_file >>
    /\ UNCHANGED << toc_vars, name_vars >>

\* "toc_pdf = make_toc_pdf(entries)": the call.
CallMakeToc ==
    /\ pc = "toc"
    /\ t_pc' = "loop"
    /\ t_entries' = entries
    /\ t_idx' = 0
    /\ t_st' = TocStart
    /\ t_pdf' = NoPdf
    /\ pc' = "toc_render"
    /\ UNCHANGED << inputs, catalog, rendered, writer, outcome >>
    /\ UNCHANGED name_vars

\* make_toc_pdf has returned: add the pages of the TOC.
AddToc ==
    /\ pc = "toc_render"
    /\ t_pc = "saved"
    /\ toc_pdf' = t_pdf
    /\ writer_pages' = AddPages(writer_pages, "toc", << >>, toc_pdf'.pages)
    /\ pc' = "marks"
    /\ UNCHANGED << inputs, catalog, cover_pdf, outline, running_index, r_idx, outcome >>
    /\ UNCHANGED << toc_vars, name_vars >>

\* writer.add_outline_item(title=..., page_number=...)
Bookmark(title, page_number) == [title |-> title, page_number |-> page_number]

TitleCover == << "Cover" >>
TitleToc == << "Table of Contents" >>

\* An initial index that forgets the pages of the TOC.
FirstDocIndexNoToc(cover_pages, toc_pages) == cover_pages

\* "running_index = cover_pages + toc_pages"
FirstDocIndex(cover_pages, toc_pages) == cover_pages + toc_pages

\* The bookmarks of the cover and the TOC, and the initial running_index.
AddSectionBookmarks ==
    /\ pc = "marks"
    /\ outline' = outline \o << Bookmark(TitleCover, 0),
                                Bookmark(TitleToc, cover_pdf.pages) >>
    /\ running_index' = FirstDocIndex(cover_pdf.pages, toc_pdf.pages)
    /\ pc' = "docs"
    /\ UNCHANGED << inputs, catalog, rendered, writer_pages, r_idx, outcome >>
    /\ UNCHANGED << toc_vars, name_vars >>

\* An index that counts documents instead of pages.
AdvanceByOne(index, n) == index + 1

\* "running_index += len(reader.pages)"
Advance(index, n) == index + n

\* First half of an iteration of "for name, reader in readers": the bookmark.
DocBookmark ==
    /\ pc = "docs"
    /\ r_idx < Len(readers)
    /\ outline' = Append(outline,
                         Bookmark(display_name(readers[r_idx + 1].name), running_index))
    /\ pc' = "doc_pages"
    /\ UNCHANGED << inputs, catalog, rendered, writer_pages, running_index, r_idx, outcome >>
    /\ UNCHANGED << toc_vars, name_vars >>

\* Second half: the document's pages, then "running_index += len(reader.pages)".
DocPages ==
    /\ pc = "doc_pages"
    /\ LET rd == readers[r_idx + 1]
       IN  /\ writer_pages' = AddPages(writer_pages, "doc", rd.name, rd.pages)
           /\ running_index' = Advance(running_index, rd.pages)
    /\ r_idx' = r_idx + 1
    /\ pc' = "docs"
    /\ UNCHANGED << inputs, catalog, rendered, outline, outcome >>
    /\ UNCHANGED << toc_vars, name_vars >>

\* "with open(output_path, "wb") as f: writer.write(f)" succeeds.
WriteOutput ==
    /\ pc = "docs"
    /\ r_idx = Len(readers)
    /\ out_opened' = TRUE
    /\ out_file' = [state |-> "complete", pages |-> writer_pages, outline |-> outline]
    /\ pc' = "written"
    /\ UNCHANGED << inputs, catalog, rendered, writer, stdout, raised, exit_code >>
    /\ UNCHANGED << toc_vars, name_vars >>

\* The same statement fails: open raises (nothing is opened), or the write
\* raises after the file was opened (what it holds is then unknown).  The
\* exception is not caught.
WriteFails ==
    /\ pc = "docs"
    /\ r_idx = Len(readers)
    /\ \E opened \in BOOLEAN :
         /\ out_opened' = opened
         /\ out_file' = IF opened
                        THEN [state |-> "partial", pages |-> << >>, outline |-> << >>]
                        ELSE out_file
    /\ Uncaught(MsgWriteFailed)
    /\ UNCHANGED << inputs, catalog, rendered, writer, stdout >>
    /\ UNCHANGED << toc_vars, name_vars >>

\* Back in main: the completion line; the interpreter exits with status 0.
MainDone ==
    /\ pc = "written"
    /\ stdout' = Append(stdout, Line(MsgDone, NoArg))
    /\ exit_code' = 0
    /\ pc' = "exit"
    /\ UNCHANGED << inputs, catalog, rendered, writer, raised, out_opened, out_file >>
    /\ UNCHANGED << toc_vars, name_vars >>

(* ------------------- make_toc_pdf, one row at a time ------------------- *)

\* The entry lists merge_with_index builds from n one-page documents.
EntryList(n) == [ i \in 1..n |-> [name |-> BulkName(i - 1), start_page |-> i] ]

TocInit ==
    /\ MainIdle /\ NameIdle
    /\ t_pc = "loop"
    /\ t_entries \in { EntryList(n) : n \in 0..MaxEntries }
    /\ t_idx = 0
    /\ t_st = TocStart
    /\ t_pdf = NoPdf

\* An iteration of the loop that stays on the page.
TocRowSamePage ==
    /\ t_pc = "loop"
    /\ t_idx < Len(t_entries)
    /\ ~NeedNewPage(t_st.y)
    /\ t_st' = TocRow(t_st, t_idx, t_entries[t_idx + 1])
    /\ t_idx' = t_idx + 1
    /\ UNCHANGED << t_pc, t_entries, t_pdf >>
    /\ UNCHANGED << main_vars, name_vars >>

\* An iteration of the loop that starts a new page first.
TocRowNewPage ==
    /\ t_pc = "loop"
    /\ t_idx < Len(t_entries)
    /\ NeedNewPage(t_st.y)
    /\ t_st' = TocRow(t_st, t_idx, t_entries[t_idx + 1])
    /\ t_idx' = t_idx + 1
    /\ UNCHANGED << t_pc, t_entries, t_pdf >>
    /\ UNCHANGED << main_vars, name_vars >>

\* The statements after the loop.
TocFinish ==
    /\ t_pc = "loop"
    /\ t_idx = Len(t_entries)
    /\ t_pdf' = TocSave(t_st)
    /\ t_pc' = "saved"
    /\ UNCHANGED << t_entries, t_idx, t_st >>
    /\ UNCHANGED << main_vars, name_vars >>

TocNext == TocRowSamePage \/ TocRowNewPage \/ TocFinish

TocSpec == TocInit /\ [][TocNext]_vars

(* ------------------------- the run of main() --------------------------- *)

Next ==
    \/ MainUsage \/ MainNotDir \/ MainNoPdfs \/ MainMerge
    \/ CatalogSkip \/ CatalogRead \/ CatalogEmpty
    \/ AddCover \/ CallMakeToc
    \/ TocRowSamePage \/ TocRowNewPage \/ TocFinish
    \/ AddToc \/ AddSectionBookmarks
    \/ DocBookmark \/ DocPages
    \/ WriteOutput \/ WriteFails
    \/ MainDone

Spec == Init /\ [][Next]_vars

(* --------------------- the clean-up of a file name --------------------- *)

\* What a file name is put together from.
Pieces ==
    { << "a" >>, << "_" >>, << "." >>, << "p" >>, << "d" >>, << "f" >>, DotPdf }

NameInit ==
    /\ MainIdle /\ TocIdle
    /\ n_pc = "build"
    /\ n_name = << >>
    /\ n_pieces = 0
    /\ n_shown = << >>
    /\ n_twice = << >>

\* The name grows by one piece.
NameAppend ==
    /\ n_pc = "build"
    /\ n_pieces < MaxPieces
    /\ \E piece \in Pieces : n_name' = n_name \o piece
    /\ n_pieces' = n_pieces + 1
    /\ UNCHANGED << n_pc, n_shown, n_twice >>
    /\ UNCHANGED << main_vars, toc_vars >>

\* A file of that name is found by the glob; its name is cleaned up for the
\* TOC row and the bookmark title, and the result is cleaned up once more.
NameShow ==
    /\ n_pc = "build"
    /\ n_name # << >>
    /\ GlobMatch(n_name)
    /\ n_shown' = display_name(n_name)
    /\ n_twice' = display_name(display_name(n_name))
    /\ n_pc' = "shown"
    /\ UNCHANGED << n_name, n_pieces >>
    /\ UNCHANGED << main_vars, toc_vars >>

NameNext == NameAppend \/ NameShow

NameSpec == NameInit /\ [][NameNext]_vars

(* ========================= properties: Spec ============================ *)

\* The globbed files that PdfReader can open, and their number of pages.
ReadableGlobbed == { nm \in glob(dir) : dir[nm].readable }

RECURSIVE SumPages(_)
SumPages(S) ==
    IF S = {} THEN 0
    ELSE LET nm == CHOOSE x \in S : TRUE
         IN  dir[nm].pages + SumPages(S \ {nm})

\* The names of the documents in the catalog so far, in catalog order.
DocOrder == [ i \in 1..Len(readers) |-> readers[i].name ]

\* The pages of the catalog documents before document i.
PagesBefore(i) == SumPages({ readers[j].name : j \in 1..(i - 1) })

Range(f) == { f[i] : i \in DOMAIN f }

Finished == out_file.state = "complete"

\* C1: when merge_with_index finishes, the output holds exactly coverPages +
\* tocPages + (sum of the page counts of the readable source documents)
\* pages, no page lost and none duplicated: every page of the cover, of the
\* TOC and of each readable document is in the output exactly once.
C1_PageCount ==
    Finished =>
        /\ Len(out_file.pages) =
               cover_pdf.pages + toc_pdf.pages + SumPages(ReadableGlobbed)
        /\ Cardinality(Range(out_file.pages)) = Len(out_file.pages)
        /\ Range(out_file.pages) =
               Range(PagesOf("cover", << >>, cover_pdf.pages))
                   \cup Range(PagesOf("toc", << >>, toc_pdf.pages))
                   \cup UNION { Range(PagesOf("doc", nm, dir[nm].pages)) :
                                nm \in ReadableGlobbed }

\* A finished merge of more than 25 documents, whose TOC takes two pages.
C1_Witness ==
    /\ Finished
    /\ toc_pdf.pages = 2
    /\ SumPages(ReadableGlobbed) > 0

\* The bookmark titles expected after the two section bookmarks.
DocTitles == [ i \in 1..Len(readers) |-> display_name(readers[i].name) ]

OutlineShape ==
    /\ Len(out_file.outline) = Cardinality(ReadableGlobbed) + 2
    /\ out_file.outline[1].title = TitleCover
    /\ out_file.outline[2].title = TitleToc
    /\ \A i \in 1..Len(readers) : out_file.outline[i + 2].title = DocTitles[i]

\* C2 as stated: N+2 bookmarks (Cover, Table of Contents, one per document)
\* whose targets are strictly increasing, also when a document has no page.
C2_StrictlyIncreasing ==
    Finished =>
        /\ OutlineShape
        /\ \A i, j \in 1..Len(out_file.outline) :
               i < j => out_file.outline[i].page_number < out_file.outline[j].page_number

\* C2 as amended: N+2 bookmarks in that order whose targets never decrease,
\* with cover < TOC < first document, and a document's target below the next
\* document's exactly when the document has at least one page.
C2_NonDecreasing ==
    Finished =>
        /\ OutlineShape
        /\ \A i, j \in 1..Len(out_file.outline) :
               i < j => out_file.outline[i].page_number <= out_file.outline[j].page_number
        /\ out_file.outline[1].page_number < out_file.outline[2].page_number
        /\ out_file.outline[2].page_number < out_file.outline[3].page_number
        /\ \A i \in 1..(Len(readers) - 1) :
               (out_file.outline[i + 2].page_number < out_file.outline[i + 3].page_number)
                   <=> readers[i].pages > 0

\* A finished merge in which a document without pages is followed by another.
C2_Witness ==
    /\ Finished
    /\ \E i \in 1..(Len(readers) - 1) : readers[i].pages = 0
    /\ \E i \in 1..(Len(readers) - 1) : readers[i].pages > 0

\* C3: every bookmark targets the 0-based index of the first page of its
\* section: Cover 0, Table of Contents coverPageCount, document i
\* coverPageCount + tocPageCount + (pages of documents before i); when a
\* document's bookmark is added the target is the number of pages already in
\* the writer, and the page then appended there is the document's first.
C3_BookmarkTargets ==
    /\ Len(outline) >= 2 =>
           /\ outline[1] = Bookmark(TitleCover, 0)
           /\ outline[2] = Bookmark(TitleToc, cover_pdf.pages)
           /\ writer_pages[outline[1].page_number + 1] = [kind |-> "cover", name |-> << >>, k |-> 1]
           /\ writer_pages[outline[2].page_number + 1] = [kind |-> "toc", name |-> << >>, k |-> 1]
    /\ \A i \in 1..(Len(outline) - 2) :
           /\ outline[i + 2].page_number =
                  cover_pdf.pages + toc_pdf.pages + PagesBefore(i)
           /\ (i <= r_idx /\ readers[i].pages > 0) =>
                  writer_pages[outline[i + 2].page_number + 1] =
                      [kind |-> "doc", name |-> readers[i].name, k |-> 1]
    /\ pc = "doc_pages" =>
           /\ Len(outline) = r_idx + 3
           /\ outline[Len(outline)].page_number = Len(writer_pages)
    /\ pc \in { "docs", "written" } => Len(outline) = r_idx + 2

\* The bookmark of a later document has just been added, after a document of
\* two pages.
C3_Witness ==
    /\ pc = "doc_pages"
    /\ r_idx >= 1
    /\ readers[r_idx].pages = 2
    /\ outline[Len(outline)].page_number > cover_pdf.pages + toc_pdf.pages

\* The files of pdfs[1..n] that open, in order.
Opened(n) == SelectSeq(SubSeq(pdfs, 1, n), LAMBDA nm : dir[nm].readable)

\* C4: the catalog's entries are the files that opened; startPage of the
\* first is 1 and of each other the previous startPage plus the previous
\* page count; cover and TOC are not counted, so startPage_i is document i's
\* bookmark index - coverPageCount - tocPageCount + 1.
C4_StartPages ==
    /\ [ i \in 1..Len(entries) |-> entries[i].name ] = Opened(p_idx)
    /\ Len(entries) >= 1 => entries[1].start_page = 1
    /\ \A i \in 2..Len(entries) :
           entries[i].start_page = entries[i - 1].start_page + dir[entries[i - 1].name].pages
    /\ \A i \in 1..(Len(outline) - 2) :
           entries[i].start_page =
               outline[i + 2].page_number - cover_pdf.pages - toc_pdf.pages + 1

\* A finished merge in which a file was skipped and the second entry starts
\* at page 3.
C4_Witness ==
    /\ Finished
    /\ Len(entries) >= 2
    /\ Len(entries) < Len(pdfs)
    /\ entries[2].start_page = 3

\* The runs that end in a usage error or an empty-input error, told by the
\* inputs of the run.
UsageCase == argc # 3
NotDirCase == argc = 3 /\ ~isdir
NoPdfsCase == argc = 3 /\ isdir /\ glob(dir) = {}
NoneReadableCase ==
    argc = 3 /\ isdir /\ glob(dir) # {} /\ ReadableGlobbed = {}

\* Everything the run has told the user: the texts printed and the message
\* of the uncaught exception.
Reported == { stdout[i].text : i \in 1..Len(stdout) } \cup { raised }

\* C6: in a run with a wrong argument count, an INPUT_DIR that is no
\* directory, no "*.pdf" file in it, or no file that opens, the output file
\* is never opened or written and the exit status is not zero; "no PDFs
\* found" and "no readable PDFs" are reported by different messages.
C6_ErrorRuns ==
    /\ (UsageCase \/ NotDirCase \/ NoPdfsCase \/ NoneReadableCase) =>
           /\ ~out_opened
           /\ out_file = NoFile
           /\ pc = "exit" => exit_code # 0 /\ exit_code # NotExited
           /\ pc \in { "main", "catalog", "exit" }
    /\ (pc = "exit" /\ UsageCase) => MsgUsage \in Reported
    /\ (pc = "exit" /\ NotDirCase) => MsgNotDir \in Reported
    /\ (pc = "exit" /\ NoPdfsCase) =>
           MsgNoPdfs \in Reported /\ MsgNoReadable \notin Reported
    /\ (pc = "exit" /\ NoneReadableCase) =>
           MsgNoReadable \in Reported /\ MsgNoPdfs \notin Reported

\* A run has ended with the exception for files found but none openable,
\* after skipping two files.
C6_Witness ==
    /\ pc = "exit"
    /\ NoneReadableCase
    /\ raised = MsgNoReadable
    /\ Len(pdfs) = 2

\* Some but not all of the globbed files fail to open.
MixedCase ==
    /\ argc = 3 /\ isdir
    /\ ReadableGlobbed # {}
    /\ ReadableGlobbed # glob(dir)

\* The warnings printed so far, in order.
Warnings == SelectSeq(stdout, LAMBDA l : l.text = MsgSkipping)

\* The files of pdfs[1..n] that fail to open, in order.
Failed(n) == SelectSeq(SubSeq(pdfs, 1, n), LAMBDA nm : ~dir[nm].readable)

\* C7: when some but not all files fail to open, each failing file gets one
\* warning naming it and is in no TOC entry, no bookmark and no copied page;
\* the run goes on and, unless writing the output fails, ends with status 0
\* and an output built from the files that opened, in their sorted order,
\* wherever the failing files sit in that order.
C7_PartialFailure ==
    MixedCase =>
        /\ Warnings = [ i \in 1..Len(Failed(p_idx)) |-> Line(MsgSkipping, Failed(p_idx)[i]) ]
        /\ DocOrder = Opened(p_idx)
        /\ [ i \in 1..Len(entries) |-> entries[i].name ] = Opened(p_idx)
        /\ \A i \in 1..Len(writer_pages) :
               writer_pages[i].kind = "doc" => dir[writer_pages[i].name].readable
        /\ raised \in { "", MsgWriteFailed }
        /\ pc = "exit" => (exit_code = 0 <=> raised = "")
        /\ (pc = "exit" /\ exit_code = 0) => Finished
        /\ Finished =>
               /\ Len(out_file.pages) =
                      cover_pdf.pages + toc_pdf.pages + SumPages(ReadableGlobbed)
               /\ Len(out_file.outline) = Cardinality(ReadableGlobbed) + 2
               /\ \A i \in 1..Len(readers) :
                      out_file.outline[i + 2].title = display_name(Opened(Len(pdfs))[i])
               /\ { out_file.pages[i].name : i \in 1..Len(out_file.pages) } \ { << >> }
                      = { nm \in ReadableGlobbed : dir[nm].pages > 0 }

\* A run ended with status 0 in which the file that failed to open sorts
\* between two files that opened.
C7_Witness ==
    /\ pc = "exit"
    /\ exit_code = 0
    /\ Len(pdfs) = 3
    /\ ~dir[pdfs[2]].readable
    /\ dir[pdfs[1]].readable /\ dir[pdfs[1]].pages > 0
    /\ dir[pdfs[3]].readable /\ dir[pdfs[3]].pages > 0

RECURSIVE Concat(_)
\* The concatenation of a sequence of sequences.
Concat(ss) == IF ss = << >> THEN << >> ELSE Head(ss) \o Concat(Tail(ss))

\* The rows of the rendered TOC, in the order they were drawn.
TocRows(pdf) == SelectSeq(pdf.ops, LAMBDA o : o.op \in { "row", "shaded_row" })

\* C8: the pages are appended in the order cover pages, TOC pages, then each
\* cataloged document's pages contiguously in catalog order; catalog order is
\* the lexicographic order of the globbed paths; TOC rows, document bookmarks
\* and the documents' pages in the output are all in this order.
C8_Order ==
    /\ \A i, j \in 1..Len(pdfs) : i < j => StrLess(pdfs[i], pdfs[j])
    /\ pc \notin { "main", "exit" } => Range(pdfs) = glob(dir)
    /\ DocOrder = Opened(p_idx)
    /\ writer_pages =
           PagesOf("cover", << >>, cover_pdf.pages)
               \o PagesOf("toc", << >>, toc_pdf.pages)
               \o Concat([ i \in 1..r_idx |->
                             PagesOf("doc", DocOrder[i], readers[i].pages) ])
    /\ pc \in { "marks", "docs", "doc_pages", "written" } =>
           /\ Len(TocRows(toc_pdf)) = Len(readers)
           /\ \A i \in 1..Len(readers) :
                  /\ TocRows(toc_pdf)[i].text = display_name(DocOrder[i])
                  /\ TocRows(toc_pdf)[i].num = entries[i].start_page
    /\ \A i \in 1..(Len(outline) - 2) :
           outline[i + 2].title = display_name(DocOrder[i])
    /\ Finished => out_file.pages = writer_pages /\ out_file.outline = outline

\* A finished merge of B.pdf, a.pdf and a_b.pdf, each with at least one page.
C8_Witness ==
    /\ Finished
    /\ Len(readers) = 3
    /\ DocOrder = << << "B", ".", "p", "d", "f" >>,
                     << "a", ".", "p", "d", "f" >>,
                     << "a", "_", "b", ".", "p", "d", "f" >> >>
    /\ \A i \in 1..3 : readers[i].pages > 0

(* ======================== properties: TocSpec ========================== *)

\* What was drawn on page q, in drawing order.
OpsOn(ops, q) == SelectSeq(ops, LAMBDA o : o.page = q)

\* How many times op was drawn on page q.
Count(ops, q, op) == Len(SelectSeq(ops, LAMBDA o : o.page = q /\ o.op = op))

IsRow(o) == o.op \in { "row", "shaded_row" }

\* The lowest y a row may be drawn at.
Threshold == margin + Hundredths(50)

\* n rows fit the first page: the last of them is not below the threshold.
FitsFirstPage(n) == n = 0 \/ TocStart.y - (n - 1) * Hundredths(32) >= Threshold

\* The drawing so far, or the whole of it once the canvas is saved.
TocOps == IF t_pc = "saved" THEN t_pdf.ops ELSE t_st.ops

C9_State ==
    /\ \A i \in 1..Len(TocOps) : IsRow(TocOps[i]) => TocOps[i].y >= Threshold
    /\ t_pc = "saved" => (t_pdf.pages > 1 <=> ~FitsFirstPage(Len(t_entries)))
    /\ \A q \in 1..(t_st.shown + 1) :
           /\ Count(TocOps, q, "header") = (IF q = 1 THEN 1 ELSE 0)
           /\ Count(TocOps, q, "continued") = (IF q = 1 THEN 0 ELSE 1)
           /\ Head(OpsOn(TocOps, q)).op = (IF q = 1 THEN "header" ELSE "continued")
    /\ \A i \in 1..Len(TocOps) : TocOps[i].page \in 1..(t_st.shown + 1)

C9_Step ==
    t_idx' = t_idx + 1 =>
        /\ t_st'.shown = (IF t_st.y < Threshold THEN t_st.shown + 1 ELSE t_st.shown)
        /\ IsRow(t_st'.ops[Len(t_st'.ops)])
        /\ t_st'.ops[Len(t_st'.ops)].page = t_st'.shown + 1
        /\ t_st.y >= Threshold => t_st'.ops[Len(t_st'.ops)].y = t_st.y

\* C9: before each row a new page is started exactly when the cursor y is
\* below margin + 0.5 inch, so no row is drawn below that threshold; more
\* than one TOC page is emitted exactly when the rows do not fit the first
\* page; "Table of Contents (continued)" heads every page from the second on
\* and never the first, and "Table of Contents" heads only the first.
C9_Pagination == [] C9_State /\ [][C9_Step]_vars

\* A TOC of three pages has been saved.
C9_Witness ==
    /\ t_pc = "saved"
    /\ t_pdf.pages = 3

\* C10: every page of the TOC gets exactly one page-number footer, drawn
\* after everything else on the page, and the footers carry the numbers
\* 1, 2, ..., P, where P is the page count of the TOC; while the loop runs
\* this holds of the pages already emitted, and the page being drawn has no
\* footer yet.
C10_Footers ==
    /\ \A q \in 1..(t_st.shown + 1) :
           (q <= t_st.shown \/ t_pc = "saved") =>
               LET on == OpsOn(TocOps, q)
               IN  /\ Count(TocOps, q, "footer") = 1
                   /\ on[Len(on)].op = "footer"
                   /\ on[Len(on)].num = q
    /\ t_pc = "loop" => Count(TocOps, t_st.shown + 1, "footer") = 0
    /\ t_pc = "saved" =>
           /\ t_pdf.pages = t_st.shown + 1
           /\ SelectSeq(t_pdf.ops, LAMBDA o : o.op = "footer")
                  = [ q \in 1..t_pdf.pages |-> Footer([shown |-> q - 1, page_num |-> q]) ]

\* A TOC of exactly 26 rows, the fewest that take two pages, has been saved.
C10_Witness ==
    /\ t_pc = "saved"
    /\ t_pdf.pages = 2
    /\ ~FitsFirstPage(Len(t_entries))
    /\ FitsFirstPage(Len(t_entries) - 1)

(* ======================== properties: NameSpec ========================= *)

\* name without its trailing ".pdf".
StripTrailingPdf(name) ==
    IF EndsWith(name, DotPdf) THEN SubSeq(name, 1, Len(name) - Len(DotPdf)) ELSE name

\* name with every "_" replaced by " ".
SpacesForUnderscores(name) ==
    [ i \in 1..Len(name) |-> IF name[i] = "_" THEN " " ELSE name[i] ]

\* Part of C5: cleaning up a display name once more changes nothing.
C5_Idempotent == n_pc = "shown" => n_twice = n_shown

\* C5: for every file name matching "*.pdf", the display name is the name
\* with its trailing ".pdf" removed and every "_" replaced by " ", and
\* cleaning up the display name once more changes nothing.
C5_DisplayName ==
    n_pc = "shown" =>
        /\ n_shown = SpacesForUnderscores(StripTrailingPdf(n_name))
        /\ n_twice = n_shown

====
